---- MODULE Spec2Model ----
(***************************************************************************)
(* A model of scripts/hwp_filler.py: the raw-DEFLATE stream codec, the     *)
(* field scanner, the structured and the raw-byte substitution, and the    *)
(* analyze / fill commands working on files of a small file system.        *)
(*                                                                         *)
(* Bytes are integers 0..255, byte strings are sequences of bytes, text is *)
(* a sequence of code points.  The library calls of the script (zlib,      *)
(* bytes.replace, str.encode/decode, re.findall, olefile) are modelled by  *)
(* what they compute, as operators over these sequences.                   *)
(***************************************************************************)
EXTENDS Integers, Sequences, FiniteSets, TLC

(***************************************************************************)
(* Sequence helpers.                                                       *)
(***************************************************************************)
Slice(s, a, b) == IF a > b THEN << >> ELSE SubSeq(s, a, b)

Drop(s, n) == Slice(s, n + 1, Len(s))

Take(s, n) == Slice(s, 1, IF n > Len(s) THEN Len(s) ELSE n)

Pow2(n) == 2 ^ n

RECURSIVE Flatten(_)
Flatten(ss) == IF ss = << >> THEN << >> ELSE Head(ss) \o Flatten(Tail(ss))

\* s[a..a+Len(p)-1] = p   (1-based a)
MatchAt(s, a, p) ==
    /\ a >= 1
    /\ a + Len(p) - 1 <= Len(s)
    /\ \A k \in 1..Len(p) : s[a + k - 1] = p[k]

(***************************************************************************)
(* RFC 1951 tables used by zlib: base values and extra bits of the length  *)
(* symbols 257..285 and of the distance symbols 0..29.                     *)
(***************************************************************************)
LBase == << 3, 4, 5, 6, 7, 8, 9, 10, 11, 13, 15, 17, 19, 23, 27, 31, 35, 43,
            51, 59, 67, 83, 99, 115, 131, 163, 195, 227, 258 >>

LExtra == << 0, 0, 0, 0, 0, 0, 0, 0, 1, 1, 1, 1, 2, 2, 2, 2, 3, 3, 3, 3,
             4, 4, 4, 4, 5, 5, 5, 5, 0 >>

DBase == << 1, 2, 3, 4, 5, 7, 9, 13, 17, 25, 33, 49, 65, 97, 129, 193, 257,
            385, 513, 769, 1025, 1537, 2049, 3073, 4097, 6145, 8193, 12289,
            16385, 24577 >>

DExtra == << 0, 0, 0, 0, 1, 1, 2, 2, 3, 3, 4, 4, 5, 5, 6, 6, 7, 7, 8, 8,
             9, 9, 10, 10, 11, 11, 12, 12, 13, 13 >>

\* the largest index i of table t with t[i] <= v
BaseIndex(t, v) == CHOOSE i \in 1..Len(t) :
                      /\ t[i] <= v
                      /\ (i = Len(t) \/ t[i + 1] > v)

\* n bits of v, most significant first (Huffman codes) / least first (values)
BitsMSB(v, n) == [i \in 1..n |-> (v \div Pow2(n - i)) % 2]

BitsLSB(v, n) == [i \in 1..n |-> (v \div Pow2(i - 1)) % 2]

(***************************************************************************)
(* zlib's deflate at level 9 (deflate_slow, lazy matching) over one window *)
(* holding the whole input.  A token is <<0, byte>> (a literal) or         *)
(* <<length, distance>> (a match, length >= 3).                            *)
(***************************************************************************)
\* the number of equal bytes of w from p + k and from s + k on, at most 258
RECURSIVE MatchLen(_, _, _, _)
MatchLen(w, p, s, k) ==
    IF s + k <= Len(w) /\ k < 258 /\ w[p + k] = w[s + k]
    THEN MatchLen(w, p, s, k + 1)
    ELSE k

\* longest_match: the hash chain of the three bytes at s holds the earlier
\* positions with the same three bytes, never the first position of the
\* window (index 0 is the chain's NIL); the chain is walked from the most
\* recent position and a candidate wins only when strictly longer than the
\* best so far (which starts at the previous match's length).
LongestMatch(w, s, prev) ==
    LET cand == { p \in 2..(s - 1) : MatchAt(w, p, Slice(w, s, s + 2)) }
        good == { p \in cand : MatchLen(w, p, s, 0) > prev }
    IN  IF good = { }
        THEN << 2, 0 >>
        ELSE LET best == CHOOSE l \in { MatchLen(w, p, s, 0) : p \in good } :
                            \A q \in good : MatchLen(w, q, s, 0) <= l
                 at   == CHOOSE p \in good :
                            /\ MatchLen(w, p, s, 0) = best
                            /\ \A q \in good : MatchLen(w, q, s, 0) = best => q <= p
             IN  << best, at >>

\* deflate_slow: st = [s: strstart (1-based), ml: match_length, ms: match_start,
\* avail: match_available, toks: the tokens tallied so far]
RECURSIVE DeflateSlow(_, _)
DeflateSlow(w, st) ==
    IF st.s > Len(w)
    THEN IF st.avail THEN Append(st.toks, << 0, w[Len(w)] >>) ELSE st.toks
    ELSE LET pl == st.ml
             pm == st.ms
             m  == IF Len(w) - st.s + 1 >= 3 /\ pl < 258
                   THEN LongestMatch(w, st.s, pl)
                   ELSE << 2, 0 >>
         IN  IF pl >= 3 /\ m[1] <= pl
             THEN DeflateSlow(w, [s |-> st.s + pl - 1, ml |-> 2, ms |-> pm,
                                  avail |-> FALSE,
                                  toks |-> Append(st.toks, << pl, st.s - 1 - pm >>)])
             ELSE IF st.avail
             THEN DeflateSlow(w, [s |-> st.s + 1, ml |-> m[1],
                                  ms |-> IF m[1] >= 3 THEN m[2] ELSE pm,
                                  avail |-> TRUE,
                                  toks |-> Append(st.toks, << 0, w[st.s - 1] >>)])
             ELSE DeflateSlow(w, [s |-> st.s + 1, ml |-> m[1],
                                  ms |-> IF m[1] >= 3 THEN m[2] ELSE pm,
                                  avail |-> TRUE, toks |-> st.toks])

Tokens(w) == DeflateSlow(w, [s |-> 1, ml |-> 2, ms |-> 0, avail |-> FALSE,
                             toks |-> << >>])

\* the fixed Huffman code of a literal/length symbol 0..287 (RFC 1951, 3.2.6)
FixedCode(sym) ==
    IF sym <= 143 THEN BitsMSB(48 + sym, 8)
    ELSE IF sym <= 255 THEN BitsMSB(400 + sym - 144, 9)
    ELSE IF sym <= 279 THEN BitsMSB(sym - 256, 7)
    ELSE BitsMSB(192 + sym - 280, 8)

TokenBits(t) ==
    IF t[1] = 0
    THEN FixedCode(t[2])
    ELSE LET i == BaseIndex(LBase, t[1])
             j == BaseIndex(DBase, t[2])
         IN  FixedCode(256 + i) \o BitsLSB(t[1] - LBase[i], LExtra[i])
             \o BitsMSB(j - 1, 5) \o BitsLSB(t[2] - DBase[j], DExtra[j])

\* bits to bytes, least significant bit first, the last byte padded with zeros
RECURSIVE PackBits(_)
PackBits(bits) ==
    IF bits = << >> THEN << >>
    ELSE LET b == [i \in 1..8 |-> IF i <= Len(bits) THEN bits[i] ELSE 0]
         IN  << b[1] + 2 * b[2] + 4 * b[3] + 8 * b[4] + 16 * b[5] + 32 * b[6]
                + 64 * b[7] + 128 * b[8] >> \o PackBits(Drop(bits, 8))

\* compress_stream without line 27 (the flush): compress() alone returns no
\* byte for an input that fits zlib's window, everything is still pending
compress_stream_unflushed(data) == << >>

\* compress_stream: one final block (BFINAL = 1) with the fixed codes
\* (BTYPE = 01), which is the block type zlib chooses for inputs as short as
\* the model's; then the end-of-block symbol 256.
compress_stream(data) ==
    LET toks == Tokens(data)
    IN  PackBits(<< 1, 1, 0 >>
                 \o Flatten([i \in 1..Len(toks) |-> TokenBits(toks[i])])
                 \o FixedCode(256))

(***************************************************************************)
(* zlib's inflate of a raw DEFLATE stream (wbits = -15).  Bit i (from 0)   *)
(* of a byte string is bit i % 8 of its byte i \div 8.  A result is        *)
(* [ok, out, pos, dyn]: ok is FALSE when zlib reports an error (invalid    *)
(* data, or the input ends before the final block does).                   *)
(***************************************************************************)
NBits(data) == 8 * Len(data)

Bit(data, i) == (data[(i \div 8) + 1] \div Pow2(i % 8)) % 2

RECURSIVE ReadLSB(_, _, _)
ReadLSB(data, pos, n) ==
    IF n = 0 THEN 0 ELSE Bit(data, pos) + 2 * ReadLSB(data, pos + 1, n - 1)

RECURSIVE ReadMSB(_, _, _)
ReadMSB(data, pos, n) ==
    IF n = 0 THEN 0
    ELSE Bit(data, pos + n - 1) + 2 * ReadMSB(data, pos, n - 1)

InflateError == [ok |-> FALSE, out |-> << >>, pos |-> 0, dyn |-> FALSE]

\* the literal/length symbol coded at pos in the fixed code: << symbol, bits >>,
\* or << -1, 0 >> when the input ends inside the code
FixedSymbol(data, pos) ==
    LET n == NBits(data) - pos
    IN  IF n < 7 THEN << -1, 0 >>
        ELSE LET c7 == ReadMSB(data, pos, 7)
             IN  IF c7 <= 23 THEN << 256 + c7, 7 >>
                 ELSE IF n < 8 THEN << -1, 0 >>
                 ELSE IF c7 <= 95 THEN << ReadMSB(data, pos, 8) - 48, 8 >>
                 ELSE IF c7 <= 99 THEN << 280 + ReadMSB(data, pos, 8) - 192, 8 >>
                 ELSE IF n < 9 THEN << -1, 0 >>
                 ELSE << 144 + ReadMSB(data, pos, 9) - 400, 9 >>

\* append len bytes copied from dist bytes back (the copy may overlap itself)
RECURSIVE CopyBack(_, _, _)
CopyBack(out, dist, len) ==
    IF len = 0 THEN out
    ELSE CopyBack(Append(out, out[Len(out) - dist + 1]), dist, len - 1)

\* the symbols of one block coded with the fixed codes, up to its end-of-block
RECURSIVE InflateFixed(_, _, _)
InflateFixed(data, pos, out) ==
    LET sb  == FixedSymbol(data, pos)
        sym == sb[1]
        p1  == pos + sb[2]
    IN  IF sym = -1 \/ sym >= 286 THEN InflateError
        ELSE IF sym <= 255 THEN InflateFixed(data, p1, Append(out, sym))
        ELSE IF sym = 256 THEN [ok |-> TRUE, out |-> out, pos |-> p1, dyn |-> FALSE]
        ELSE LET i  == sym - 256
                 p2 == p1 + LExtra[i]
             IN  IF p2 + 5 > NBits(data) THEN InflateError
                 ELSE LET len == LBase[i] + ReadLSB(data, p1, LExtra[i])
                          j   == ReadMSB(data, p2, 5) + 1
                          p3  == p2 + 5
                      IN  IF j > 30 THEN InflateError
                          ELSE IF p3 + DExtra[j] > NBits(data) THEN InflateError
                          ELSE LET dist == DBase[j] + ReadLSB(data, p3, DExtra[j])
                               IN  IF dist > Len(out) THEN InflateError
                                   ELSE InflateFixed(data, p3 + DExtra[j],
                                                     CopyBack(out, dist, len))

\* a stored block: skip to the byte boundary, LEN, NLEN = ~LEN, LEN bytes
InflateStored(data, pos, out) ==
    LET b == (pos + 7) \div 8
    IN  IF b + 4 > Len(data) THEN InflateError
        ELSE LET len  == data[b + 1] + 256 * data[b + 2]
                 nlen == data[b + 3] + 256 * data[b + 4]
             IN  IF len + nlen # 65535 THEN InflateError
                 ELSE IF b + 4 + len > Len(data) THEN InflateError
                 ELSE [ok |-> TRUE, out |-> out \o Slice(data, b + 5, b + 4 + len),
                       pos |-> 8 * (b + 4 + len), dyn |-> FALSE]

\* A block with dynamic codes (BTYPE = 10) carries its code tables in front
\* of the data; tables and an end-of-block symbol take 80 bits or more, so in
\* fewer bits the block is invalid or cut short and zlib reports an error.
\* The tables themselves are not modelled: dyn marks a result that met a
\* dynamic block with enough bits left for one.
InflateDynamic(data, pos) ==
    [InflateError EXCEPT !.dyn = (NBits(data) - pos >= 80)]

RECURSIVE InflateBlocks(_, _, _)
InflateBlocks(data, pos, out) ==
    IF pos + 3 > NBits(data) THEN InflateError
    ELSE LET bfinal == Bit(data, pos)
             btype  == ReadLSB(data, pos + 1, 2)
             r == IF btype = 0 THEN InflateStored(data, pos + 3, out)
                  ELSE IF btype = 1 THEN InflateFixed(data, pos + 3, out)
                  ELSE IF btype = 2 THEN InflateDynamic(data, pos)
                  ELSE InflateError
         IN  IF ~r.ok \/ bfinal = 1 THEN r
             ELSE InflateBlocks(data, r.pos, r.out)

Inflate(data) == InflateBlocks(data, 0, << >>)

\* decompress_stream with a handler that returns b'' when zlib raises
decompress_stream_or_empty(data) ==
    LET r == Inflate(data)
    IN  IF r.ok THEN r.out ELSE << >>

\* decompress_stream: zlib.decompress(data, -15), and the input itself when
\* zlib raises
decompress_stream(data) ==
    LET r == Inflate(data)
    IN  IF r.ok THEN r.out ELSE data

(***************************************************************************)
(* Text.  A str is a sequence of code points; the surrogate code points    *)
(* 55296..57343 (which json.load yields for a lone \udXXX escape) cannot   *)
(* be encoded.                                                             *)
(***************************************************************************)
IsSurrogate(c) == c >= 55296 /\ c <= 57343

\* whether str.encode('utf-16le') returns (it raises UnicodeEncodeError
\* otherwise)
Encodable(s) == \A i \in 1..Len(s) : ~IsSurrogate(s[i])

\* str.encode('utf-16le'): two bytes, low byte first, for a code point of the
\* basic plane; a surrogate pair for the others
EncodeUnit(c) ==
    IF c < 65536
    THEN << c % 256, c \div 256 >>
    ELSE LET hi == 55296 + ((c - 65536) \div 1024)
             lo == 56320 + ((c - 65536) % 1024)
         IN  << hi % 256, hi \div 256, lo % 256, lo \div 256 >>

encode_utf16le(s) == Flatten([i \in 1..Len(s) |-> EncodeUnit(s[i])])

\* bytes.decode('utf-16le', errors='ignore'): a trailing odd byte and every
\* code unit that is a surrogate without its partner are dropped
RECURSIVE decode_utf16le(_)
decode_utf16le(b) ==
    IF Len(b) < 2 THEN << >>
    ELSE LET u == b[1] + 256 * b[2]
         IN  IF u >= 55296 /\ u <= 56319
             THEN IF Len(b) < 4 THEN << >>
                  ELSE LET v == b[3] + 256 * b[4]
                       IN  IF v >= 56320 /\ v <= 57343
                           THEN << 65536 + (u - 55296) * 1024 + (v - 56320) >>
                                \o decode_utf16le(Drop(b, 4))
                           ELSE decode_utf16le(Drop(b, 2))
             ELSE IF u >= 56320 /\ u <= 57343
             THEN decode_utf16le(Drop(b, 2))
             ELSE << u >> \o decode_utf16le(Drop(b, 2))

\* the decimal digits of a natural number, as text
RECURSIVE Digits(_)
Digits(n) == IF n < 10 THEN << 48 + n >> ELSE Append(Digits(n \div 10), 48 + (n % 10))

\* str(value) of a JSON value: a string is itself, an integer its decimal
\* text, and the list of one plain string s is the text ['s']
Str(value) ==
    IF value.t = "str" THEN value.s
    ELSE IF value.t = "list" THEN << 91, 39 >> \o value.s \o << 39, 93 >>
    ELSE IF value.n < 0 THEN << 45 >> \o Digits(0 - value.n)
    ELSE Digits(value.n)

\* '{{' + field + '}}'
Placeholder(field) == << 123, 123 >> \o field \o << 125, 125 >>

\* the first index >= i at which old occurs in buf, or 0
RECURSIVE FindFrom(_, _, _)
FindFrom(buf, old, i) ==
    IF i + Len(old) - 1 > Len(buf) THEN 0
    ELSE IF MatchAt(buf, i, old) THEN i
    ELSE FindFrom(buf, old, i + 1)

\* old in buf
Contains(buf, old) == FindFrom(buf, old, 1) # 0

(***************************************************************************)
(* find_text_in_section: re.findall(r'\{\{([^}]+)\}\}', decoded).  The     *)
(* scan is leftmost and non-overlapping; at a "{{" the name runs to the    *)
(* first '}' (the class [^}] matches every other character), must not be   *)
(* empty and must be followed by a second '}'.                             *)
(***************************************************************************)
\* the first index >= i of text holding c, or 0
RECURSIVE IndexFrom(_, _, _)
IndexFrom(text, c, i) ==
    IF i > Len(text) THEN 0
    ELSE IF text[i] = c THEN i
    ELSE IndexFrom(text, c, i + 1)

RECURSIVE FindAll(_, _)
FindAll(text, i) ==
    IF i + 1 > Len(text) THEN << >>
    ELSE IF text[i] = 123 /\ text[i + 1] = 123
    THEN LET j == IndexFrom(text, 125, i + 2)
         IN  IF j >= i + 3 /\ j + 1 <= Len(text) /\ text[j + 1] = 125
             THEN << Slice(text, i + 2, j - 1) >> \o FindAll(text, j + 2)
             ELSE FindAll(text, i + 1)
    ELSE FindAll(text, i + 1)

\* the scan with the greedy pattern r'\{\{(.+)\}\}': one field, from the first
\* "{{" to the last "}}" of the text
RECURSIVE LastClose(_, _)
LastClose(text, j) ==
    IF j < 1 THEN 0
    ELSE IF j + 1 <= Len(text) /\ text[j] = 125 /\ text[j + 1] = 125 THEN j
    ELSE LastClose(text, j - 1)

find_text_greedy(section_data) ==
    LET text == decode_utf16le(section_data)
        i == FindFrom(text, << 123, 123 >>, 1)
        j == LastClose(text, Len(text) - 1)
    IN  IF i # 0 /\ j >= i + 3 THEN << Slice(text, i + 2, j - 1) >> ELSE << >>

\* the scan with the lazy pattern r'\{\{(.+?)\}\}': at a "{{" the name runs
\* to the first "}}" that leaves it at least one character
RECURSIVE FindAllLazy(_, _)
FindAllLazy(text, i) ==
    IF i + 1 > Len(text) THEN << >>
    ELSE IF text[i] = 123 /\ text[i + 1] = 123
    THEN LET j == FindFrom(text, << 125, 125 >>, i + 3)
         IN  IF j # 0
             THEN << Slice(text, i + 2, j - 1) >> \o FindAllLazy(text, j + 2)
             ELSE FindAllLazy(text, i + 1)
    ELSE FindAllLazy(text, i + 1)

find_text_lazy(section_data) == FindAllLazy(decode_utf16le(section_data), 1)

find_text_in_section(section_data) == FindAll(decode_utf16le(section_data), 1)

(***************************************************************************)
(* bytes.replace(old, new) for a non-empty old: the occurrences of old are *)
(* taken from the left, without overlap.                                   *)
(***************************************************************************)
RECURSIVE ReplaceFrom(_, _, _, _)
ReplaceFrom(buf, old, new, i) ==
    LET k == FindFrom(buf, old, i)
    IN  IF k = 0 THEN Slice(buf, i, Len(buf))
        ELSE Slice(buf, i, k - 1) \o new \o ReplaceFrom(buf, old, new, k + Len(old))

Replace(buf, old, new) == ReplaceFrom(buf, old, new, 1)

(***************************************************************************)
(* replace_text_in_section: for each entry, re.sub(pattern, value, text)   *)
(* with pattern = r'\{\{' + re.escape(field) + r'\}\}', which matches the  *)
(* placeholder of field literally.  re.sub takes value as a replacement    *)
(* template and parses it before it searches: a backslash starts an        *)
(* escape.  A value that is not a str makes re.sub raise TypeError.        *)
(***************************************************************************)
IsOctDigit(c) == c >= 48 /\ c <= 55

IsDigit(c) == c >= 48 /\ c <= 57

IsAsciiLetter(c) == (c >= 65 /\ c <= 90) \/ (c >= 97 /\ c <= 122)

\* the character of the escapes \a \b \f \n \r \t \v and \\, or -1
EscapeChar(c) ==
    CASE c = 97 -> 7 [] c = 98 -> 8 [] c = 102 -> 12 [] c = 110 -> 10
      [] c = 114 -> 13 [] c = 116 -> 9 [] c = 118 -> 11 [] c = 92 -> 92
      [] OTHER -> -1

\* the template v expanded from index i for a match of the text match:
\* [ok, text]; ok is FALSE when re raises (a bad escape, a reference to a
\* group the pattern does not have).  Of the forms of \g only \g<0>, the
\* whole match, is told from the erroneous ones.
RECURSIVE ExpandFrom(_, _, _)
ExpandFrom(v, i, match) ==
    LET Then(chars, next) ==
            LET rest == ExpandFrom(v, next, match)
            IN  [ok |-> rest.ok, text |-> chars \o rest.text]
        Bad == [ok |-> FALSE, text |-> << >>]
        At(k) == IF k <= Len(v) THEN v[k] ELSE -1
    IN  IF i > Len(v) THEN [ok |-> TRUE, text |-> << >>]
        ELSE IF v[i] # 92 THEN Then(<< v[i] >>, i + 1)
        ELSE IF i = Len(v) THEN Bad
        ELSE LET c == v[i + 1]
             IN  IF c = 103
                 THEN IF i + 4 <= Len(v) /\ Slice(v, i + 2, i + 4) = << 60, 48, 62 >>
                      THEN Then(match, i + 5) ELSE Bad
                 ELSE IF c = 48
                 THEN IF IsOctDigit(At(i + 2))
                      THEN IF IsOctDigit(At(i + 3))
                           THEN Then(<< (8 * (At(i + 2) - 48) + (At(i + 3) - 48)) % 256 >>,
                                     i + 4)
                           ELSE Then(<< At(i + 2) - 48 >>, i + 3)
                      ELSE Then(<< 0 >>, i + 2)
                 ELSE IF IsDigit(c)
                 THEN IF IsOctDigit(c) /\ IsOctDigit(At(i + 2)) /\ IsOctDigit(At(i + 3))
                      THEN LET n == 64 * (c - 48) + 8 * (At(i + 2) - 48) + (At(i + 3) - 48)
                           IN  IF n > 255 THEN Bad ELSE Then(<< n >>, i + 4)
                      ELSE Bad
                 ELSE IF EscapeChar(c) # -1 THEN Then(<< EscapeChar(c) >>, i + 2)
                 ELSE IF IsAsciiLetter(c) THEN Bad
                 ELSE Then(<< 92, c >>, i + 2)

\* re.sub(pattern, value, text) for the entry e: [ok, text]
re_sub(text, e) ==
    IF e.value.t # "str" THEN [ok |-> FALSE, text |-> text]
    ELSE LET repl == ExpandFrom(e.value.s, 1, Placeholder(e.field))
         IN  IF ~repl.ok THEN [ok |-> FALSE, text |-> text]
             ELSE [ok |-> TRUE, text |-> Replace(text, Placeholder(e.field), repl.text)]

\* the loop of lines 79-82: [ok, text]
RECURSIVE SubAll(_, _)
SubAll(text, replacements) ==
    IF replacements = << >> THEN [ok |-> TRUE, text |-> text]
    ELSE LET r == re_sub(text, Head(replacements))
         IN  IF ~r.ok THEN r ELSE SubAll(r.text, Tail(replacements))

\* replace_text_in_section(section_data, replacements): the section decoded,
\* substituted and encoded again, or section_data as it was when any step
\* raises (replacements.items() of a list, re.sub, encode of a surrogate)
replace_text_in_section(section_data, replacements) ==
    IF \E i \in 1..Len(replacements) : "field" \notin DOMAIN replacements[i]
    THEN section_data
    ELSE LET r == SubAll(decode_utf16le(section_data), replacements)
         IN  IF r.ok /\ Encodable(r.text) THEN encode_utf16le(r.text)
             ELSE section_data

(***************************************************************************)
(* The compound file, as olefile presents it to the script: a signature,   *)
(* a directory of named streams, and the streams' bytes.  The file is the  *)
(* byte string                                                             *)
(*     Magic \o <<n>> \o <<name_1, size_1, ..., name_n, size_n>> \o data   *)
(* with the streams' bytes stored one after the other in directory order   *)
(* (the sector chains and allocation tables of the real container are      *)
(* abstracted to this).  A stream name is a number: NameFileHeader,        *)
(* NameDocInfo, NameBodyText + k for 'BodyText/Section<k>', NameOther for  *)
(* any other stream (such as the preview text, which is stored raw).       *)
(***************************************************************************)
Magic == << 208, 207, 17, 224, 161, 177, 26, 225 >>

NameOther == 0

NameFileHeader == 1

NameDocInfo == 2

NameBodyText == 16

\* stream_path.startswith('BodyText/Section')
IsBodyText(name) == name >= NameBodyText

\* a compound file holding the streams [name, data] in this order
MkFile(streams) ==
    Magic \o << Len(streams) >>
    \o Flatten([i \in 1..Len(streams) |-> << streams[i].name, Len(streams[i].data) >>])
    \o Flatten([i \in 1..Len(streams) |-> streams[i].data])

RECURSIVE SumSizes(_, _)
SumSizes(bytes, n) == IF n = 0 THEN 0 ELSE bytes[9 + 2 * n] + SumSizes(bytes, n - 1)

\* olefile opening whatever it is given, without a test of the signature or
\* of the directory, and listing no stream
ParseCFUnchecked(bytes) == [ok |-> TRUE, streams |-> << >>]

\* olefile.OleFileIO(path), listdir() and openstream(s).read() for every
\* stream: [ok, streams]; ok is FALSE when olefile raises (no signature, a
\* directory that runs past the end of the file, a stream whose bytes do)
ParseCF(bytes) ==
    IF Len(bytes) < 9 \/ Take(bytes, 8) # Magic
    THEN [ok |-> FALSE, streams |-> << >>]
    ELSE LET n == bytes[9]
         IN  IF 9 + 2 * n > Len(bytes) \/ 9 + 2 * n + SumSizes(bytes, n) > Len(bytes)
             THEN [ok |-> FALSE, streams |-> << >>]
             ELSE [ok |-> TRUE,
                   streams |-> [i \in 1..n |->
                       [name |-> bytes[8 + 2 * i],
                        data |-> Slice(bytes,
                                       10 + 2 * n + SumSizes(bytes, i - 1),
                                       9 + 2 * n + SumSizes(bytes, i))]]]

\* read_hwp_structure: the decompressed BodyText sections, in listdir order
read_hwp_structure(bytes) ==
    LET cf == ParseCF(bytes)
    IN  SelectSeq([i \in 1..Len(cf.streams) |->
                      [name |-> cf.streams[i].name,
                       data |-> decompress_stream(cf.streams[i].data)]],
                  LAMBDA s : IsBodyText(s.name))

\* analyze_hwp_fields: the fields of every section, one after the other;
\* raised is TRUE when olefile raises (the call returns nothing then)
analyze_hwp_fields(file) ==
    IF ~file.exists \/ ~ParseCF(file.bytes).ok
    THEN [raised |-> TRUE, fields |-> << >>]
    ELSE LET body == read_hwp_structure(file.bytes)
         IN  [raised |-> FALSE,
              fields |-> Flatten([i \in 1..Len(body) |->
                                     find_text_in_section(body[i].data)])]

(***************************************************************************)
(* fill_hwp_template.  The SubstitutionMap is the dict json.load returns:  *)
(* a sequence of entries [field, value] in insertion order, with distinct  *)
(* fields.  When the JSON document is a list, json.load returns a list:    *)
(* the one-element sequence << [list |-> items] >>.                        *)
(***************************************************************************)
\* whether data is a dict, so that data.items() returns
IsMapping(data) == \A i \in 1..Len(data) : "field" \in DOMAIN data[i]

\* ApplyEntry with content.replace(pattern_bytes, value_bytes, 1): the first
\* occurrence only
ApplyEntryOnce(content, e) ==
    LET pattern_bytes == encode_utf16le(Placeholder(e.field))
        value_bytes   == encode_utf16le(Str(e.value))
        k             == FindFrom(content, pattern_bytes, 1)
    IN  IF k = 0 THEN content
        ELSE Slice(content, 1, k - 1) \o value_bytes
             \o Slice(content, k + Len(pattern_bytes), Len(content))

\* ApplyEntry with the value encoded by a bare str.encode(), which is UTF-8
\* (one byte for each of the model's ASCII code points)
ApplyEntryUtf8(content, e) ==
    LET pattern_bytes == encode_utf16le(Placeholder(e.field))
    IN  IF Contains(content, pattern_bytes)
        THEN Replace(content, pattern_bytes, Str(e.value))
        ELSE content

\* the buffer after the entry [field, value] is applied (lines 132-136); the
\* test 'pattern_bytes in content' only skips a replace that changes nothing
ApplyEntry(content, e) ==
    LET pattern_bytes == encode_utf16le(Placeholder(e.field))
        value_bytes   == encode_utf16le(Str(e.value))
    IN  IF Contains(content, pattern_bytes)
        THEN Replace(content, pattern_bytes, value_bytes)
        ELSE content

\* whether both encode calls of the entry return
EntryEncodable(e) == Encodable(Placeholder(e.field)) /\ Encodable(Str(e.value))

\* the loop over data.items(): [ok, content]; ok is FALSE when an encode
\* raises, which ends the loop
RECURSIVE RawSubstitute(_, _)
RawSubstitute(content, entries) ==
    IF entries = << >> THEN [ok |-> TRUE, content |-> content]
    ELSE IF ~EntryEncodable(Head(entries)) THEN [ok |-> FALSE, content |-> content]
    ELSE RawSubstitute(ApplyEntry(content, Head(entries)), Tail(entries))

\* the bytes of the collected streams_data, one stream after the other
FillContentFromStreams(bytes) ==
    LET cf == ParseCF(bytes)
    IN  Flatten([i \in 1..Len(cf.streams) |-> cf.streams[i].data])

\* the bytes the substitution starts from: the template read a second time
\* (lines 126-127), not the streams collected by the structured pass
FillContent(bytes) == bytes

NoFile == [exists |-> FALSE, bytes |-> << >>]

\* open(path, 'wb'), write(content), close, under the outcome io of the
\* file system: "ok"; "denied" (open raises, nothing is touched); "empty"
\* and "partial" (open has truncated the file, the write or the flush at
\* close raises with nothing or with half of the bytes written)
WriteFile(fs, path, content, io) ==
    IF io = "denied" THEN fs
    ELSE [fs EXCEPT ![path] =
             [exists |-> TRUE,
              bytes  |-> IF io = "ok" THEN content
                         ELSE IF io = "empty" THEN << >>
                         ELSE Take(content, Len(content) \div 2)]]

\* fill_hwp_template(template_path, output_path, data): [files, ok].  Every
\* exception ends in the handler of line 146, which returns False.  The
\* structured pass of lines 103-118 only fills the local streams_data, which
\* nothing reads; it raises when olefile does.  data.items() at line 130
\* raises AttributeError when data is not a dict.
fill_hwp_template(fs, template_path, output_path, data, io) ==
    IF ~fs[template_path].exists THEN [files |-> fs, ok |-> FALSE]
    ELSE IF ~ParseCF(fs[template_path].bytes).ok THEN [files |-> fs, ok |-> FALSE]
    ELSE IF ~IsMapping(data) THEN [files |-> fs, ok |-> FALSE]
    ELSE LET sub == RawSubstitute(FillContent(fs[template_path].bytes), data)
         IN  IF ~sub.ok THEN [files |-> fs, ok |-> FALSE]
             ELSE [files |-> WriteFile(fs, output_path, sub.content, io),
                   ok |-> io = "ok"]

(***************************************************************************)
(* The inputs of the model: field names, values, maps, section texts and   *)
(* template files.                                                         *)
(***************************************************************************)
FieldA == << 97 >>

FieldB == << 98 >>

Fields == { FieldA, FieldB }

StrValue(s) == [t |-> "str", s |-> s, n |-> 0]

IntValue(n) == [t |-> "int", s |-> << >>, n |-> n]

\* the JSON list [s] of one string
ListValue(s) == [t |-> "list", s |-> s, n |-> 0]

\* 12345 (a JSON number, as long as "{{a}}" once stringified), "", "{{b}}"
\* (a value that is itself a placeholder), "vvv{{" (a value that ends the way
\* a placeholder starts), a lone surrogate (which no encode accepts), the
\* Hangul syllable U+D64D (neither of its bytes occurs in a placeholder of
\* Fields) and the nested value ["x"]
Values == { IntValue(12345), StrValue(<< >>), StrValue(Placeholder(FieldB)),
            StrValue(<< 118, 118, 118, 123, 123 >>), StrValue(<< 55296 >>),
            StrValue(<< 54861 >>), ListValue(<< 120 >>) }

Entries == { [field |-> f, value |-> v] : f \in Fields, v \in Values }

\* the dicts over Fields, in every insertion order
Maps == { << >> } \cup { << e >> : e \in Entries }
        \cup { m \in { << e1, e2 >> : e1 \in Entries, e2 \in Entries } :
                   m[1].field # m[2].field }

\* the JSON documents [] and ["x"]
NonMappings == { << [list |-> << >>] >>, << [list |-> << StrValue(<< 120 >>) >>] >> }

\* the data file named on the command line: a JSON document, a path that
\* cannot be opened, or text that is not JSON
DataFiles == { [state |-> "ok", data |-> d] : d \in Maps \cup NonMappings }
             \cup { [state |-> st, data |-> << >>] : st \in { "missing", "malformed" } }

TextA == Placeholder(FieldA)

TextAvA == Placeholder(FieldA) \o << 118 >> \o Placeholder(FieldA)

TextAB == Placeholder(FieldA) \o Placeholder(FieldB)

\* "{{a}}b}}"
TextJunction == Placeholder(FieldA) \o << 98, 125, 125 >>

\* "{{x{{a}}": the field named "x{{a"
TextNested == << 123, 123, 120 >> \o Placeholder(FieldA)

Stream(name, data) == [name |-> name, data |-> data]

\* a FileHeader stream (a stand-in for the format's 256 bytes)
HeaderStream == Stream(NameFileHeader, << 72 >>)

Raw(text) == encode_utf16le(text)

Deflated(text) == compress_stream(encode_utf16le(text))

\* Documents as the format stores them (sections deflated, the preview text
\* raw), documents with raw sections, and files olefile rejects: one
\* without the signature and one whose directory runs past the end.
TemplateBytes ==
    { MkFile(<< HeaderStream, Stream(NameBodyText, Deflated(TextA)) >>),
      MkFile(<< HeaderStream, Stream(NameOther, Raw(TextAB)),
                Stream(NameBodyText, Deflated(TextAB)) >>),
      MkFile(<< Stream(NameBodyText, Deflated(TextA)),
                Stream(NameBodyText + 1, Raw(Placeholder(FieldB))) >>),
      MkFile(<< HeaderStream, Stream(NameBodyText, Raw(TextA)) >>),
      MkFile(<< HeaderStream, Stream(NameBodyText, Raw(TextAvA)) >>),
      MkFile(<< Stream(NameBodyText, Raw(TextAB)) >>),
      MkFile(<< Stream(NameBodyText, Raw(TextJunction)) >>),
      MkFile(<< Stream(NameBodyText, Raw(TextNested)) >>),
      Raw(TextA),
      Magic \o << 1, NameBodyText, 20 >> \o Raw(TextA) }

IoOutcomes == { "ok", "denied", "empty", "partial" }

(***************************************************************************)
(* The state: the two files the commands name and the last command run     *)
(* with its arguments and its result (files, call); one application of the *)
(* stream codec (codec) and one of the field scanner (scan).               *)
(***************************************************************************)
VARIABLES files, call, codec, scan, section

vars == << files, call, codec, scan, section >>

NoCall == [cmd |-> "none", path |-> "", filled |-> FALSE, data |-> << >>,
           io |-> "ok", ok |-> FALSE, raised |-> FALSE, fields |-> << >>,
           source |-> "", exit |-> -1, uncaught |-> FALSE]

NoCodec == [stage |-> "idle", x |-> << >>, z |-> << >>, y |-> << >>]

NoScan == [stage |-> "idle", pieces |-> << >>, data |-> << >>, fields |-> << >>]

NoSection == [stage |-> "idle", data |-> << >>, replacements |-> << >>,
              modified |-> << >>, content |-> << >>]

Init ==
    /\ files \in { [template |-> t, output |-> NoFile] :
                     t \in { [exists |-> TRUE, bytes |-> b] : b \in TemplateBytes }
                           \cup { NoFile } }
    /\ call = NoCall
    /\ codec = NoCodec
    /\ scan = NoScan
    /\ section = NoSection

\* the fill branch of main (lines 198-215): [files, filled, ok, exit,
\* uncaught].  open and json.load of lines 207-208 are outside every try: when
\* one raises, fill_hwp_template is not called (filled is FALSE), the
\* exception leaves main (uncaught) and the interpreter exits with status 1.
main(fs, template_path, output_path, datafile, io) ==
    IF datafile.state # "ok"
    THEN [files |-> fs, filled |-> FALSE, ok |-> FALSE, exit |-> 1, uncaught |-> TRUE]
    ELSE LET r == fill_hwp_template(fs, template_path, output_path, datafile.data, io)
         IN  [files |-> r.files, filled |-> TRUE, ok |-> r.ok,
              exit |-> IF r.ok THEN 0 ELSE 1, uncaught |-> FALSE]

\* the command 'fill template output data' (main, lines 198-215)
Fill ==
    /\ call.cmd = "none"
    /\ \E datafile \in DataFiles, io \in IoOutcomes :
          LET r == main(files, "template", "output", datafile, io)
          IN  /\ files' = r.files
              /\ call' = [NoCall EXCEPT !.cmd = "fill", !.path = "output",
                                        !.filled = r.filled, !.data = datafile.data,
                                        !.io = io, !.ok = r.ok,
                                        !.source = datafile.state,
                                        !.exit = r.exit, !.uncaught = r.uncaught]
    /\ UNCHANGED << codec, scan, section >>

\* what the file system holds after path has been opened for writing: open
\* creates the file or truncates it
AfterOpenForWriting(fs, path) == [fs EXCEPT ![path] = [exists |-> TRUE, bytes |-> << >>]]

\* what the file system holds after olefile has opened path (mode 'rb'),
\* read it and closed it
AfterRead(fs, path) == fs

\* the command 'analyze path' (main, lines 192-196)
Analyze ==
    /\ call.cmd \in { "none", "fill" }
    /\ \E path \in { "template", "output" } :
          LET r == analyze_hwp_fields(files[path])
          IN  /\ files' = AfterRead(files, path)
              /\ call' = [call EXCEPT !.cmd = "analyze", !.path = path,
                                      !.raised = r.raised, !.fields = r.fields]
    /\ UNCHANGED << codec, scan, section >>

Next == Fill \/ Analyze

Spec == Init /\ [][Next]_vars

(***************************************************************************)
(* The stream codec applied to one byte string: compress_stream, then      *)
(* decompress_stream of what it returned.                                  *)
(***************************************************************************)
MaxLen == 5

\* a byte coded in 8 bits (0), the byte of '{' and a byte coded in 9 bits
CodecBytes == { 0, 123, 144 }

RECURSIVE SeqsUpTo(_, _)
SeqsUpTo(S, n) ==
    IF n = 0 THEN { << >> }
    ELSE LET shorter == SeqsUpTo(S, n - 1)
         IN  shorter \cup { Append(q, c) : q \in { r \in shorter : Len(r) = n - 1 },
                                           c \in S }

InitCodec ==
    /\ files = [template |-> NoFile, output |-> NoFile]
    /\ call = NoCall
    /\ scan = NoScan
    /\ section = NoSection
    /\ codec \in { [NoCodec EXCEPT !.stage = "input", !.x = x] :
                     x \in SeqsUpTo(CodecBytes, MaxLen) }

Compress ==
    /\ codec.stage = "input"
    /\ codec' = [codec EXCEPT !.stage = "compressed", !.z = compress_stream(codec.x)]
    /\ UNCHANGED << files, call, scan, section >>

Decompress ==
    /\ codec.stage = "compressed"
    /\ codec' = [codec EXCEPT !.stage = "decompressed",
                              !.y = decompress_stream(codec.z)]
    /\ UNCHANGED << files, call, scan, section >>

NextCodec == Compress \/ Decompress

SpecCodec == InitCodec /\ [][NextCodec]_vars

(***************************************************************************)
(* decompress_stream applied to the bytes of one stream, which may be      *)
(* anything: text stored raw, a deflated stream, a deflated stream cut     *)
(* short or followed by another byte.                                      *)
(***************************************************************************)
StreamBytes ==
    SeqsUpTo(CodecBytes, MaxLen)
    \cup { compress_stream(x) : x \in SeqsUpTo(CodecBytes, 2) }
    \cup { Take(compress_stream(x), Len(compress_stream(x)) - 1) :
               x \in SeqsUpTo(CodecBytes, 2) }
    \cup { compress_stream(x) \o << 0 >> : x \in SeqsUpTo(CodecBytes, 2) }

InitProbe ==
    /\ files = [template |-> NoFile, output |-> NoFile]
    /\ call = NoCall
    /\ scan = NoScan
    /\ section = NoSection
    /\ codec \in { [NoCodec EXCEPT !.stage = "stream", !.z = z] : z \in StreamBytes }

\* decompress_stream(z), as read_hwp_structure calls it on a stream's bytes
Probe ==
    /\ codec.stage = "stream"
    /\ codec' = [codec EXCEPT !.stage = "probed", !.y = decompress_stream(codec.z)]
    /\ UNCHANGED << files, call, scan, section >>

NextProbe == Probe

SpecProbe == InitProbe /\ [][NextProbe]_vars

(***************************************************************************)
(* The field scanner applied to one section: the section's text is a       *)
(* sequence of pieces, each a filler character or a placeholder {{name}}.  *)
(***************************************************************************)
MaxPieces == 4

Filler(c) == [ph |-> FALSE, s |-> << c >>]

Marker(name) == [ph |-> TRUE, s |-> name]

\* a filler 'A' and the placeholders of the names "x" and "y"
Pieces == { Filler(65), Marker(<< 120 >>), Marker(<< 121 >>) }

\* "A{{x}}B{{y}}C{{x}}"
ExamplePieces == << Filler(65), Marker(<< 120 >>), Filler(66), Marker(<< 121 >>),
                    Filler(67), Marker(<< 120 >>) >>

PieceText(p) == IF p.ph THEN Placeholder(p.s) ELSE p.s

SectionText(pieces) == Flatten([i \in 1..Len(pieces) |-> PieceText(pieces[i])])

InitScan ==
    /\ files = [template |-> NoFile, output |-> NoFile]
    /\ call = NoCall
    /\ codec = NoCodec
    /\ section = NoSection
    /\ scan \in { [NoScan EXCEPT !.stage = "input", !.pieces = ps,
                                 !.data = encode_utf16le(SectionText(ps))] :
                    ps \in SeqsUpTo(Pieces, MaxPieces) \cup { ExamplePieces } }

Scan ==
    /\ scan.stage = "input"
    /\ scan' = [scan EXCEPT !.stage = "scanned",
                            !.fields = find_text_in_section(scan.data)]
    /\ UNCHANGED << files, call, codec, section >>

NextScan == Scan

SpecScan == InitScan /\ [][NextScan]_vars

(***************************************************************************)
(* The field scanner applied to any text over '{', '}' and 'a', braces     *)
(* that do not pair up included.                                           *)
(***************************************************************************)
MaxText == 7

TextChars == { 123, 125, 97 }

InitGrammar ==
    /\ files = [template |-> NoFile, output |-> NoFile]
    /\ call = NoCall
    /\ codec = NoCodec
    /\ section = NoSection
    /\ scan \in { [NoScan EXCEPT !.stage = "input", !.data = encode_utf16le(text)] :
                    text \in SeqsUpTo(TextChars, MaxText) }

NextGrammar == Scan

SpecGrammar == InitGrammar /\ [][NextGrammar]_vars

(***************************************************************************)
(* The two substitutions applied to the bytes of one uncompressed section  *)
(* of even length: replace_text_in_section (the structured pass, lines     *)
(* 110-113) and the loop over the raw bytes (lines 130-137).               *)
(***************************************************************************)
FieldDot == << 46 >>

\* "v", "" and "\n", "\1", "\\" (a backslash followed by n, by 1, by a
\* backslash), and the number 12345
SectionValues == { StrValue(<< 118 >>), StrValue(<< >>), StrValue(<< 92, 110 >>),
                   StrValue(<< 92, 49 >>), StrValue(<< 92, 92 >>), IntValue(12345) }

SectionEntries == { [field |-> f, value |-> v] : f \in { FieldA, FieldDot },
                                                 v \in SectionValues }

SectionMaps == { << >> } \cup { << e >> : e \in SectionEntries }
               \cup { m \in { << e1, e2 >> : e1 \in SectionEntries, e2 \in SectionEntries } :
                          m[1].field # m[2].field }

\* "{{a}}", "{{a}}v{{a}}", "{{.}}{{a}}", and twelve bytes in which the bytes
\* of "{{a}}" start at an odd offset: the text U+7B41 U+7B00 U+6100 U+7D00
\* U+7D00 U+4200
SectionBuffers ==
    { Raw(TextA), Raw(TextAvA), Raw(Placeholder(FieldDot) \o TextA),
      << 65 >> \o Raw(TextA) \o << 66 >> }

InitSection ==
    /\ files = [template |-> NoFile, output |-> NoFile]
    /\ call = NoCall
    /\ codec = NoCodec
    /\ scan = NoScan
    /\ section \in { [NoSection EXCEPT !.stage = "input", !.data = d,
                                       !.replacements = m] :
                       d \in SectionBuffers, m \in SectionMaps }

\* modified = replace_text_in_section(decompressed, data) (line 113)
ReplaceText ==
    /\ section.stage = "input"
    /\ section' = [section EXCEPT
                      !.stage = "structured",
                      !.modified = replace_text_in_section(section.data,
                                                           section.replacements)]
    /\ UNCHANGED << files, call, codec, scan >>

\* the loop of lines 130-137 on the same bytes
ReplaceBytes ==
    /\ section.stage = "structured"
    /\ section' = [section EXCEPT
                      !.stage = "both",
                      !.content = RawSubstitute(section.data,
                                                section.replacements).content]
    /\ UNCHANGED << files, call, codec, scan >>

NextSection == ReplaceText \/ ReplaceBytes

SpecSection == InitSection /\ [][NextSection]_vars

(***************************************************************************)
(* Properties.                                                             *)
(***************************************************************************)
TemplateValid == files.template.exists /\ ParseCF(files.template.bytes).ok

Keys(data) == { data[i].field : i \in 1..Len(data) }

PatternBytes(e) == encode_utf16le(Placeholder(e.field))

ValueBytes(e) == encode_utf16le(Str(e.value))

\* every value is as long as its placeholder, in UTF-16LE bytes
EqualLengths(data) ==
    \A i \in 1..Len(data) : Len(ValueBytes(data[i])) = Len(PatternBytes(data[i]))

\* C1: decompress_stream(compress_stream(x)) = x for every byte string x,
\* the empty one included.
RoundTrip == codec.stage = "decompressed" => codec.y = codec.x

\* a round trip of an input that deflate codes with a match
RoundTripOfMatch ==
    /\ codec.stage = "decompressed"
    /\ codec.y = codec.x
    /\ \E i \in 1..Len(Tokens(codec.x)) : Tokens(codec.x)[i][1] >= 3

\* C2: fill with an empty map on a readable, valid template (and a writable
\* output) succeeds and writes the template's bytes.
EmptyMapCopies ==
    (call.filled /\ call.data = << >> /\ call.io = "ok" /\ TemplateValid)
        => (call.ok /\ files.output = files.template)

EmptyMapCopied ==
    /\ call.cmd = "fill"
    /\ call.data = << >>
    /\ call.ok
    /\ files.output.exists
    /\ files.output.bytes = files.template.bytes

\* the fields found in the sections of a file that are stored deflated
DeflatedSectionFields(bytes) ==
    LET cf == ParseCF(bytes)
        body == SelectSeq(cf.streams,
                          LAMBDA st : IsBodyText(st.name) /\ Inflate(st.data).ok)
    IN  Flatten([i \in 1..Len(body) |->
                    find_text_in_section(decompress_stream(body[i].data))])

InSeq(x, q) == \E i \in 1..Len(q) : q[i] = x

\* C3: after a fill, a mapped field that analyze discovers in a deflated
\* section of the template is no longer reported by analyze on the output.
DeflatedFieldsFilled ==
    (call.filled /\ call.ok) =>
        \A i \in 1..Len(call.data) :
            InSeq(call.data[i].field, DeflatedSectionFields(files.template.bytes))
                => ~InSeq(call.data[i].field,
                          analyze_hwp_fields(files.output).fields)

\* C4: when every value is as long as its placeholder, the output is as long
\* as the template and begins with the template's signature.
EqualLengthKeepsSize ==
    (call.filled /\ call.ok /\ EqualLengths(call.data)) =>
        /\ Len(files.output.bytes) = Len(files.template.bytes)
        /\ Take(files.output.bytes, 8) = Take(files.template.bytes, 8)
        /\ Take(files.output.bytes, 8) = Magic

EqualLengthReplaced ==
    /\ call.cmd = "fill"
    /\ call.ok
    /\ call.data # << >>
    /\ EqualLengths(call.data)
    /\ files.output.bytes # files.template.bytes

\* the names of the placeholders among the pieces, in order of appearance
MarkerNames(pieces) ==
    LET ms == SelectSeq(pieces, LAMBDA p : p.ph)
    IN  [i \in 1..Len(ms) |-> ms[i].s]

\* a sequence without the repetitions of its earlier elements
RECURSIVE FirstAppearances(_)
FirstAppearances(q) ==
    IF q = << >> THEN << >>
    ELSE LET front == FirstAppearances(Take(q, Len(q) - 1))
         IN  IF InSeq(q[Len(q)], front) THEN front ELSE Append(front, q[Len(q)])

CountIn(q, x) == Cardinality({ i \in 1..Len(q) : q[i] = x })

RECURSIVE CountFrom(_, _, _)
CountFrom(buf, old, i) ==
    LET k == FindFrom(buf, old, i)
    IN  IF k = 0 THEN 0 ELSE 1 + CountFrom(buf, old, k + Len(old))

Count(buf, old) == CountFrom(buf, old, 1)

\* the indices of buf that lie in an occurrence of old
Occupied(buf, old) ==
    { k \in 1..Len(buf) : \E i \in 1..Len(buf) : MatchAt(buf, i, old) /\ i <= k
                                                 /\ k < i + Len(old) }

\* C5: when every value is as long as its placeholder, every byte of the
\* output outside the placeholders of the mapped fields in the template is
\* the template's byte at that offset, for any number of entries in any order.
OnlyPlaceholdersChange ==
    (call.filled /\ call.ok /\ EqualLengths(call.data)) =>
        \A k \in 1..Len(files.template.bytes) :
            (\A i \in 1..Len(call.data) :
                k \notin Occupied(files.template.bytes, PatternBytes(call.data[i])))
            => files.output.bytes[k] = files.template.bytes[k]

RECURSIVE SumTo(_, _)
SumTo(f, n) == IF n = 0 THEN 0 ELSE f[n] + SumTo(f, n - 1)

\* C6: the output's size minus the template's is the sum, over the entries,
\* of (value length - pattern length) times the number of occurrences of the
\* entry's placeholder in the template.
SizeDeltaByTemplateCounts ==
    (call.filled /\ call.ok) =>
        Len(files.output.bytes) - Len(files.template.bytes)
            = SumTo([i \in 1..Len(call.data) |->
                        (Len(ValueBytes(call.data[i])) - Len(PatternBytes(call.data[i])))
                        * Count(files.template.bytes, PatternBytes(call.data[i]))],
                    Len(call.data))

Without(q, i) == Slice(q, 1, i - 1) \o Slice(q, i + 1, Len(q))

\* C8: an entry whose placeholder does not occur in the template never makes
\* fill fail and has no effect: fill with the map returns what fill with the
\* map less that entry returns, and writes the same bytes.
AbsentEntryHasNoEffect ==
    (call.filled /\ IsMapping(call.data)) =>
        \A i \in 1..Len(call.data) :
            ~Contains(files.template.bytes, PatternBytes(call.data[i])) =>
                LET r == fill_hwp_template([files EXCEPT !.output = NoFile],
                                           "template", "output",
                                           Without(call.data, i), call.io)
                IN  /\ call.ok = r.ok
                    /\ files.output = r.files.output

\* the names a placeholder of a template may have: the fields, and "x{{a"
TemplateNames == Fields \cup { << 120, 123, 123, 97 >> }

PlaceholderKept(name) ==
    Count(files.output.bytes, encode_utf16le(Placeholder(name)))
        >= Count(files.template.bytes, encode_utf16le(Placeholder(name)))

\* C9: every placeholder of the template whose name is not a key
\* of the map is in the output, whatever the map holds.
UnmappedPlaceholdersKept ==
    (call.filled /\ call.ok) =>
        \A name \in TemplateNames \ Keys(call.data) : PlaceholderKept(name)

\* C10: analyze never changes a file: the files after the command, whether
\* it returns or raises, are the files before it.
AnalyzeKeepsFiles == [][call'.cmd = "analyze" => files' = files]_vars

AnalyzedTemplate ==
    /\ call.cmd = "analyze"
    /\ call.path = "template"
    /\ ~call.raised
    /\ call.fields # << >>
    /\ files.template.exists

\* C11: a fill that fails never leaves the output partially written: after a
\* failed fill the output file is as it was before the command (absent) or
\* holds the whole substituted buffer.
FailedFillWritesNothingOrAll ==
    (call.filled /\ ~call.ok) =>
        \/ files.output = NoFile
        \/ /\ files.output.exists
           /\ files.output.bytes
                  = RawSubstitute(files.template.bytes, call.data).content

\* a flat name-to-value mapping: a dict none of whose values is a list
FlatMapping(data) ==
    IsMapping(data) /\ \A i \in 1..Len(data) : data[i].value.t # "list"

\* C12: fill fails and writes no output whenever the data is not a flat
\* mapping: when the document is a list, and when a value of the mapping is
\* itself a list.
NotFlatDataFails ==
    (call.filled /\ call.io = "ok" /\ ~FlatMapping(call.data)) =>
        /\ ~call.ok
        /\ files.output = NoFile

\* the output file holds the whole substituted buffer
OutputWritten ==
    /\ files.output.exists
    /\ IsMapping(call.data)
    /\ files.output.bytes = RawSubstitute(files.template.bytes, call.data).content

\* C13: the fill command exits with status 0 exactly when the output was
\* written with the substituted buffer and with status 1 on every failure,
\* and no failure leaves main as an unhandled exception.
FillExitStatus ==
    call.cmd = "fill" =>
        /\ call.exit \in { 0, 1 }
        /\ call.exit = 0 <=> (call.filled /\ call.ok /\ OutputWritten)
        /\ ~call.uncaught

\* the file does not begin with the compound-file signature
LacksSignature(bytes) == Len(bytes) < 8 \/ Take(bytes, 8) # Magic

\* the file has the signature and a directory that cannot be traversed: it
\* names more entries, or more stream bytes, than the file holds
DirectoryOverruns(bytes) ==
    /\ ~LacksSignature(bytes)
    /\ \/ Len(bytes) < 9
       \/ 9 + 2 * bytes[9] > Len(bytes)
       \/ 9 + 2 * bytes[9] + SumSizes(bytes, bytes[9]) > Len(bytes)

\* C14: fill on a readable template that lacks the signature, or whose
\* directory cannot be traversed, reports failure and leaves the output path
\* as it was, even when the template's bytes hold a placeholder of the map.
InvalidContainerLeavesOutput ==
    (call.filled /\ files.template.exists
       /\ (LacksSignature(files.template.bytes)
             \/ DirectoryOverruns(files.template.bytes))) =>
        /\ ~call.ok
        /\ call.exit = 1
        /\ files.output = NoFile

InvalidContainerWithPlaceholder ==
    /\ call.cmd = "fill"
    /\ call.filled
    /\ call.io = "ok"
    /\ files.template.exists
    /\ LacksSignature(files.template.bytes)
    /\ IsMapping(call.data)
    /\ \E i \in 1..Len(call.data) :
          /\ EntryEncodable(call.data[i])
          /\ Contains(files.template.bytes, PatternBytes(call.data[i]))
    /\ ~call.ok
    /\ files.output = NoFile

BytesOf(q) == { q[k] : k \in 1..Len(q) }

\* every value is non-empty and has no byte in common with the placeholder
\* of any mapped field
ValuesApartFromPatterns(data) ==
    \A i \in 1..Len(data) :
        /\ ValueBytes(data[i]) # << >>
        /\ \A j \in 1..Len(data) :
              BytesOf(ValueBytes(data[i])) \cap BytesOf(PatternBytes(data[j])) = { }

DecompressNeverFails ==
    codec.stage = "probed" =>
        /\ \A k \in 1..Len(codec.y) : codec.y[k] \in 0..255
        /\ ~Inflate(codec.z).ok => codec.y = codec.z

RawTextPassedThrough ==
    /\ codec.stage = "probed"
    /\ codec.z = encode_utf16le(<< 123, 123 >>)
    /\ ~Inflate(codec.z).ok
    /\ codec.y = codec.z

\* text with every "{{field}}" replaced by the characters of the entry's
\* value, entry after entry, as str.replace does
RECURSIVE LiteralReplaceAll(_, _)
LiteralReplaceAll(text, replacements) ==
    IF replacements = << >> THEN text
    ELSE LiteralReplaceAll(Replace(text, Placeholder(Head(replacements).field),
                                   Head(replacements).value.s),
                           Tail(replacements))

\* C17: replace_text_in_section is a literal substring replace: for text
\* values, every "{{field}}" is replaced by the value's characters as given,
\* no character of the field or of the value being interpreted.
StructuredReplaceIsLiteral ==
    (section.stage # "input"
       /\ \A i \in 1..Len(section.replacements) :
             section.replacements[i].value.t = "str") =>
        section.modified
            = encode_utf16le(LiteralReplaceAll(decode_utf16le(section.data),
                                               section.replacements))

\* C20: on an uncompressed buffer of even length the two substitutions agree:
\* the raw result decoded is the text replace_text_in_section produces.
RawAgreesWithStructured ==
    section.stage = "both" =>
        decode_utf16le(section.content) = decode_utf16le(section.modified)

\* "{{" + m times 'a' + "}" + n times 'a' + "}}"
SingleBraceText(m, n) ==
    << 123, 123 >> \o [k \in 1..m |-> 97] \o << 125 >> \o [k \in 1..n |-> 97]
    \o << 125, 125 >>

\* C18: every name the scan returns is non-empty, holds no '}' and is the
\* text between a "{{" and the first "}}" after it; a text in which a single
\* '}' precedes the closing "}}", such as "{{a}a}}", yields no field.
FieldNamesWellFormed ==
    scan.stage = "scanned" =>
        LET text == decode_utf16le(scan.data)
        IN  /\ \A k \in 1..Len(scan.fields) :
                  LET name == scan.fields[k]
                  IN  /\ name # << >>
                      /\ \A c \in 1..Len(name) : name[c] # 125
                      /\ \E i \in 1..Len(text) :
                            /\ MatchAt(text, i, << 123, 123 >>)
                            /\ FindFrom(text, << 125, 125 >>, i + 2) = i + 2 + Len(name)
                            /\ Slice(text, i + 2, i + 1 + Len(name)) = name
            /\ (\E m, n \in 1..Len(text) : text = SingleBraceText(m, n))
                   => scan.fields = << >>

SingleBraceScanned ==
    /\ scan.stage = "scanned"
    /\ decode_utf16le(scan.data) = SingleBraceText(1, 1)
    /\ scan.fields = << >>

\* the entries of data in the opposite order
Reversed(data) == [k \in 1..Len(data) |-> data[Len(data) + 1 - k]]

\* C19: the output of fill does not depend on the order of the entries: fill
\* with the same entries in the opposite order writes the same bytes.
OrderIndependent ==
    (call.filled /\ call.ok) =>
        LET r == fill_hwp_template([files EXCEPT !.output = NoFile],
                                   "template", "output", Reversed(call.data), call.io)
        IN  /\ r.ok
            /\ r.files.output = files.output

====
